---- MODULE Spec2Model ----
(***************************************************************************)
(* PixelForge: the batch runner ResizerWorker.run, its geometry functions, *)
(* the save/backup routine and the Tk caller App (src/PixelForge.py).      *)
(*                                                                         *)
(* A file's bytes are abstracted to a record [w, h, src, gen]: the pixel   *)
(* size the codec reads from it, the path whose pixels it was made from    *)
(* and the number of the save that produced it (0 for a file that was in   *)
(* the folder from the start).  Two files are byte-identical exactly when  *)
(* their records are equal.  The file at path + ".bak" is bak[path].       *)
(***************************************************************************)
EXTENDS Integers, Sequences, FiniteSets, TLC

VARIABLES
    fs,        \* the folder tree: path -> content, NoFile where nothing exists
    bak,       \* path -> content of path + ".bak", NoFile where nothing exists
    orig,      \* fs as it was before the first run (never changes)
    cfg,       \* the JobConfig of the job
    hasPsd,    \* _HAS_PSD_TOOLS
    via,       \* who constructs the worker: "direct" (plain sinks) or "app"
    runLimit,  \* how many runs the caller starts at most
    run,       \* number of runs started so far
    last,      \* how the previous run ended and the errors it counted
    pc,        \* position of the worker thread
    files,     \* run(): files
    idx,       \* run(): idx of the for loop (1-based)
    cnt,       \* run(): processed, changed, skipped, errors
    events,    \* the callbacks the current run has invoked, in order
    sv,        \* arguments and locals of the _save_image call in progress
    opens,     \* Image.open calls in the loop of the current run
    saves,     \* number of images written so far (names the next content)
    changedBy, \* path -> the runs in which _save_image saved it and it counted as changed
    bakFailed, \* paths whose backup copy raised in some run
    ui,        \* App widgets: btn_start, btn_cancel, txt, prog, lbl_prog
    uiQueue,   \* callbacks scheduled with self.after(0, ...), not yet run
    uiWrites,  \* <<widget, thread>> for every widget mutation so far
    alive      \* number of ResizerWorker threads started and not ended

vars == <<fs, bak, orig, cfg, hasPsd, via, runLimit, run, last, pc, files, idx, cnt,
          events, sv, opens, saves, changedBy, bakFailed, ui, uiQueue, uiWrites, alive>>

uiVars == <<ui, uiQueue, uiWrites>>

----------------------------------------------------------------------------
(* Bounds of the model *)

MaxFiles == 2     \* files present in the folder tree before the first run
MaxRuns == 2      \* runs of the job in the re-run specification
MaxDim == 6       \* largest source dimension in the geometry specification
MaxTarget == 5    \* largest target dimension in the geometry specification

----------------------------------------------------------------------------
(* Paths and file contents *)

Dirs == {"", "sub"}
Bases == {"a"}
Exts == {"png", "psd", "gif"}

Paths == {p \in [dir : Dirs, base : Bases, ext : Exts] : p.dir = "" \/ p.ext = "png"}

NoPath == [dir |-> "", base |-> "", ext |-> ""]

NoFile == [w |-> 0, h |-> 0, src |-> NoPath, gen |-> 0 - 1]

\* what a failed write leaves behind: a file no codec can open
Truncated == [w |-> 0, h |-> 0, src |-> NoPath, gen |-> 0 - 2]

Original(p, size) == [w |-> size[1], h |-> size[2], src |-> p, gen |-> 0]

Size(c) == <<c.w, c.h>>

Max(a, b) == IF a >= b THEN a ELSE b

Min(a, b) == IF a <= b THEN a ELSE b

Abs(a) == IF a >= 0 THEN a ELSE 0 - a

\* Python 3 round() of the rational num/den (num >= 0, den > 0): half to even
Round(num, den) ==
    LET q == num \div den
        r2 == 2 * (num % den)
    IN  IF r2 < den THEN q
        ELSE IF r2 > den THEN q + 1
        ELSE IF q % 2 = 0 THEN q ELSE q + 1

RECURSIVE Perms(_)
Perms(S) ==
    IF S = {} THEN {<<>>}
    ELSE UNION {{<<x>> \o t : t \in Perms(S \ {x})} : x \in S}

\* the number of events of one kind in a sequence of events
CountKind(s, kind) == Cardinality({i \in 1..Len(s) : s[i].k = kind})

----------------------------------------------------------------------------
(* Geometry functions *)

SUPPORTED_EXTS == {"png", "jpg", "jpeg", "tga", "psd", "tif", "tiff", "bmp", "webp"}

\* next_multiple_of_4 that rounds a multiple of 4 up as well
next_multiple_of_4_always_up(n) == n + (4 - (n % 4))

next_multiple_of_4(n) ==
    LET r == n % 4
    IN  IF r = 0 THEN n ELSE n + (4 - r)

\* target_w = 0 stands for None; both take the same branch of the test
compute_new_size_resize_mode(width, height, target_w, enforce_mult4, allow_upscale) ==
    LET scaled == target_w > 0 /\ (width > target_w \/ (allow_upscale /\ width < target_w))
        new_w == IF scaled THEN target_w ELSE width
        new_h == IF scaled THEN Max(1, Round(height * target_w, width)) ELSE height
    IN  IF enforce_mult4
        THEN <<next_multiple_of_4(new_w), next_multiple_of_4(new_h)>>
        ELSE <<new_w, new_h>>

compute_new_size_mult4_only(width, height) ==
    <<next_multiple_of_4(width), next_multiple_of_4(height)>>

\* lines 170-172: the off-by-one test of the Google Play branch
within_one(src_w, src_h, target_w, target_h) ==
    Abs(target_w - src_w) <= 1 /\ Abs(target_h - src_h) <= 1

\* lines 178-182 (cover = TRUE, crop) and 189-193 (cover = FALSE, pad): the size of
\* im after the optional proportional resize.  scale is the rational num/den.
gp_scaled_size(src_w, src_h, target_w, target_h, cover) ==
    LET byWidth == IF cover THEN target_w * src_h >= target_h * src_w
                            ELSE target_w * src_h <= target_h * src_w
        num == IF byWidth THEN target_w ELSE target_h
        den == IF byWidth THEN src_w ELSE src_h
    IN  IF num # den /\ ~within_one(src_w, src_h, target_w, target_h)
        THEN <<Max(1, Round(src_w * num, den)), Max(1, Round(src_h * num, den))>>
        ELSE <<src_w, src_h>>

\* crop_box with the box clamped to the image
crop_box_clamped(im_w, im_h, target_w, target_h) ==
    LET left == Max(0, (im_w - target_w) \div 2)
        top == Max(0, (im_h - target_h) \div 2)
    IN  <<left, top, Min(im_w, left + target_w), Min(im_h, top + target_h)>>

\* lines 184-186: the crop box (left, top, right, bottom)
crop_box(im_w, im_h, target_w, target_h) ==
    LET left == Max(0, (im_w - target_w) \div 2)
        top == Max(0, (im_h - target_h) \div 2)
    IN  <<left, top, left + target_w, top + target_h>>

\* Image.crop returns an image of the box's size, also where the box leaves the image
crop_size(box) == <<box[3] - box[1], box[4] - box[2]>>

\* lines 215-227: a new (tw, th) canvas with im pasted at (x, y); paste clips
_pad_to_canvas(im_w, im_h, tw, th) ==
    [size |-> <<tw, th>>, x |-> (tw - im_w) \div 2, y |-> (th - im_h) \div 2]

\* lines 174-194: out.size
gp_out_size(src_w, src_h, target_w, target_h, method) ==
    IF method = "stretch" THEN <<target_w, target_h>>
    ELSE IF method = "crop"
    THEN LET im == gp_scaled_size(src_w, src_h, target_w, target_h, TRUE)
         IN  crop_size(crop_box(im[1], im[2], target_w, target_h))
    ELSE LET im == gp_scaled_size(src_w, src_h, target_w, target_h, FALSE)
         IN  _pad_to_canvas(im[1], im[2], target_w, target_h).size

----------------------------------------------------------------------------
(* Job configurations.  0 stands for None in target_width, gp_w and gp_h   *)
(* (the code tests "is not None and > 0" and "int(x or 0) <= 0").          *)
(* gp_bg_color only chooses pixel values and folder is the one folder of   *)
(* the model; neither is a field here.                                     *)

JobConfig(recursive, mode, target_width, enforce_mult4, allow_upscale, gp_w, gp_h, gp_method, gp_force_png, backup) ==
    [recursive |-> recursive, mode |-> mode, target_width |-> target_width,
     enforce_mult4 |-> enforce_mult4, allow_upscale |-> allow_upscale,
     gp_w |-> gp_w, gp_h |-> gp_h, gp_method |-> gp_method,
     gp_force_png |-> gp_force_png, backup |-> backup]

Mult4Configs ==
    {JobConfig(r, "mult4", 0, TRUE, FALSE, 0, 0, "pad", FALSE, b) : r, b \in BOOLEAN}

ResizeConfigs(widths) ==
    {JobConfig(r, "resize", tw, e, u, 0, 0, "pad", FALSE, b) :
        r \in BOOLEAN, tw \in widths, e \in BOOLEAN, u \in BOOLEAN, b \in BOOLEAN}

GpConfigs(targets) ==
    {JobConfig(r, "gp", 0, FALSE, FALSE, t[1], t[2], m, f, b) :
        r \in BOOLEAN, t \in targets, m \in {"pad", "crop", "stretch"},
        f \in BOOLEAN, b \in BOOLEAN}

----------------------------------------------------------------------------
(* Callback events *)

ZeroCounters == [processed |-> 0, changed |-> 0, skipped |-> 0, errors |-> 0]

\* self.log(text): m is the kind of line, i the loop index of the file it is about
\* (0 for a line of the run), p the path the line names
LogEv(m, i, p) == [k |-> "log", m |-> m, i |-> i, t |-> 0, p |-> p, c |-> ZeroCounters]

\* self.progress(idx, total)
ProgressEv(i, t) == [k |-> "progress", m |-> "", i |-> i, t |-> t, p |-> NoPath, c |-> ZeroCounters]

\* self.done(processed, changed, skipped, errors)
DoneEv(c) == [k |-> "done", m |-> "", i |-> 0, t |-> 0, p |-> NoPath, c |-> c]

IsLog(e) == e.k = "log"

IsProgress(e) == e.k = "progress"

IsDone(e) == e.k = "done"

NotLog(e) == e.k # "log"

NoSave == [path |-> NoPath, out |-> <<0, 0>>, force_png |-> FALSE, src |-> <<0, 0>>]

Widgets == {"btn_start", "btn_cancel", "txt", "prog", "lbl_prog"}

Label(kind, a, b, c) == [kind |-> kind, a |-> a, b |-> b, c |-> c]

\* App.log(msg), run by the thread that calls it: one more line in the text widget
AppLog(u, n) == [u EXCEPT !.txt = @ + n]

\* The three callbacks App.on_start hands to the worker, applied to the events evs the
\* worker thread emits in one step: log is App.log itself and runs on the worker
\* thread; progress_fn and done_fn only schedule a call on the Tk loop.
AppCallbacks(evs) ==
    LET n == CountKind(evs, "log")
    IN  /\ ui' = AppLog(ui, n)
        /\ uiWrites' = IF n > 0 THEN uiWrites \cup {<<"txt", "worker">>} ELSE uiWrites
        /\ uiQueue' = uiQueue \o SelectSeq(evs, NotLog)

\* the worker invokes its callbacks for evs, in order
Emit(evs) ==
    /\ events' = events \o evs
    /\ IF via = "app" THEN AppCallbacks(evs) ELSE UNCHANGED uiVars

----------------------------------------------------------------------------
(* ResizerWorker *)

Exists(c) == c # NoFile

iter_files ==
    {p \in Paths : /\ Exists(fs[p])
                   /\ p.ext \in SUPPORTED_EXTS
                   /\ (cfg.recursive \/ p.dir = "")}

\* ResizerWorker(cfg, log_fn, progress_fn, done_fn).start()
StartWorker ==
    /\ run' = run + 1
    /\ last' = [ended |-> pc, errors |-> cnt.errors]
    /\ alive' = alive + 1
    /\ pc' = "enum"
    /\ files' = <<>>
    /\ idx' = 0
    /\ cnt' = ZeroCounters
    /\ events' = <<>>
    /\ opens' = 0
    /\ sv' = NoSave

StartDirect ==
    /\ via = "direct"
    /\ pc \in {"idle", "finished", "crashed"}
    /\ run < runLimit
    /\ StartWorker
    /\ UNCHANGED <<fs, bak, orig, cfg, hasPsd, via, runLimit, saves, changedBy,
                   bakFailed, uiVars>>

\* Enumerate without the early return of lines 111-114
Enumerate_NoReturn ==
    /\ pc = "enum"
    /\ \E order \in Perms(iter_files) :
         /\ files' = order
         /\ Emit(<<LogEv("found", 0, NoPath)>>)
         /\ pc' = "loop"
         /\ idx' = 1
    /\ UNCHANGED <<fs, bak, orig, cfg, hasPsd, via, runLimit, last, run, cnt, sv, opens,
                   saves, changedBy, bakFailed, alive>>

\* lines 107-116.  os.listdir raises when the folder cannot be listed, and nothing in
\* run() catches it; os.walk swallows the same failure and yields nothing.
Enumerate ==
    /\ pc = "enum"
    /\ \E listable \in BOOLEAN :
         IF ~listable /\ ~cfg.recursive
         THEN /\ pc' = "crashed"
              /\ alive' = alive - 1
              /\ UNCHANGED <<files, idx, events, uiVars>>
         ELSE \E order \in (IF listable THEN Perms(iter_files) ELSE {<<>>}) :
                /\ files' = order
                /\ IF Len(order) = 0
                   THEN /\ Emit(<<LogEv("nofiles", 0, NoPath), DoneEv(ZeroCounters)>>)
                        /\ pc' = "finished"
                        /\ alive' = alive - 1
                        /\ idx' = idx
                   ELSE /\ Emit(<<LogEv("found", 0, NoPath)>>)
                        /\ pc' = "loop"
                        /\ alive' = alive
                        /\ idx' = 1
    /\ UNCHANGED <<fs, bak, orig, cfg, hasPsd, via, runLimit, last, run, cnt, sv, opens,
                   saves, changedBy, bakFailed>>

\* HandleError with the run given up at the first file that raises
HandleError_Abort(path) ==
    /\ cnt' = [cnt EXCEPT !.errors = @ + 1]
    /\ Emit(<<LogEv("error", idx, path)>>)
    /\ idx' = Len(files) + 1
    /\ pc' = "loop"

\* HandleError with the file that raised counted as processed too
HandleError_Processed(path) ==
    /\ cnt' = [cnt EXCEPT !.errors = @ + 1, !.processed = @ + 1]
    /\ Emit(<<LogEv("error", idx, path), ProgressEv(idx, Len(files))>>)
    /\ idx' = idx + 1
    /\ pc' = "loop"

\* lines 206-210: the except clause of the loop body, then the progress call
HandleError(path) ==
    /\ cnt' = [cnt EXCEPT !.errors = @ + 1]
    /\ Emit(<<LogEv("error", idx, path), ProgressEv(idx, Len(files))>>)
    /\ idx' = idx + 1
    /\ pc' = "loop"

\* SkipPsd without its continue: control falls through to the progress call of line 210
SkipPsd_NoContinue(path) ==
    /\ cnt' = [cnt EXCEPT !.skipped = @ + 1, !.processed = @ + 2]
    /\ Emit(<<LogEv("skip_psd", idx, path), ProgressEv(idx, Len(files)),
              ProgressEv(idx, Len(files))>>)
    /\ idx' = idx + 1
    /\ pc' = "loop"

\* lines 121-126: a PSD without psd-tools
SkipPsd(path) ==
    /\ cnt' = [cnt EXCEPT !.skipped = @ + 1, !.processed = @ + 1]
    /\ Emit(<<LogEv("skip_psd", idx, path), ProgressEv(idx, Len(files))>>)
    /\ idx' = idx + 1
    /\ pc' = "loop"

\* lines 138-140, 154-156, 196-198, then 204 and 210
SkipFile(path) ==
    /\ cnt' = [cnt EXCEPT !.skipped = @ + 1, !.processed = @ + 1]
    /\ Emit(<<LogEv("skip", idx, path), ProgressEv(idx, Len(files))>>)
    /\ idx' = idx + 1
    /\ pc' = "loop"

\* lines 134-196: what the loop body decides for an opened image of size (src_w, src_h).
\* invalid: the Google Play target check raises.  transformed: an image operation
\* (resize, crop, paste) runs before the decision, or after it on the way to the save.
Plan(src_w, src_h) ==
    IF cfg.mode = "mult4"
    THEN LET new == compute_new_size_mult4_only(src_w, src_h)
         IN  [invalid |-> FALSE, out |-> new, skip |-> new = <<src_w, src_h>>,
              transformed |-> new # <<src_w, src_h>>, force_png |-> FALSE]
    ELSE IF cfg.mode = "resize"
    THEN LET new == compute_new_size_resize_mode(src_w, src_h, cfg.target_width,
                                                 cfg.enforce_mult4, cfg.allow_upscale)
         IN  [invalid |-> FALSE, out |-> new, skip |-> new = <<src_w, src_h>>,
              transformed |-> new # <<src_w, src_h>>, force_png |-> FALSE]
    ELSE IF cfg.gp_w <= 0 \/ cfg.gp_h <= 0
    THEN [invalid |-> TRUE, out |-> <<0, 0>>, skip |-> FALSE, transformed |-> FALSE,
          force_png |-> FALSE]
    ELSE LET out == gp_out_size(src_w, src_h, cfg.gp_w, cfg.gp_h, cfg.gp_method)
         IN  [invalid |-> FALSE, out |-> out, skip |-> out = <<src_w, src_h>>,
              transformed |-> TRUE, force_png |-> cfg.gp_force_png]

\* lines 118-210, one iteration of the loop up to the call of _save_image.
\* fault: what the codec does in this iteration ("open": Image.open raises;
\* "transform": an image operation raises).
ProcessFile ==
    /\ pc = "loop"
    /\ idx <= Len(files)
    /\ LET path == files[idx]
       IN  IF path.ext = "psd" /\ ~hasPsd
           THEN /\ SkipPsd(path)
                /\ UNCHANGED <<opens, sv>>
           ELSE \E fault \in {"none", "open", "transform"} :
                  /\ opens' = opens + 1
                  /\ IF fault = "open" \/ fs[path].w = 0
                     THEN HandleError(path) /\ sv' = sv
                     ELSE LET plan == Plan(fs[path].w, fs[path].h)
                          IN  IF plan.invalid \/ (fault = "transform" /\ plan.transformed)
                              THEN HandleError(path) /\ sv' = sv
                              ELSE IF plan.skip
                              THEN SkipFile(path) /\ sv' = sv
                              ELSE /\ pc' = "backup"
                                   /\ sv' = [path |-> path, out |-> plan.out,
                                             force_png |-> plan.force_png,
                                             src |-> Size(fs[path])]
                                   /\ UNCHANGED <<cnt, events, idx, uiVars>>
    /\ UNCHANGED <<fs, bak, orig, cfg, hasPsd, via, runLimit, last, run, files, saves,
                   changedBy, bakFailed, alive>>

\* SaveBackup without the os.path.exists test of line 233
SaveBackup_Overwrite ==
    /\ pc = "backup"
    /\ pc' = "write"
    /\ IF cfg.backup
       THEN bak' = [bak EXCEPT ![sv.path] = fs[sv.path]]
       ELSE bak' = bak
    /\ UNCHANGED <<fs, orig, cfg, hasPsd, via, runLimit, last, run, files, idx, cnt, sv,
                   opens, saves, changedBy, alive, events, uiVars, bakFailed>>

\* lines 231-238 of _save_image: the optional backup
SaveBackup ==
    /\ pc = "backup"
    /\ pc' = "write"
    /\ IF cfg.backup /\ ~Exists(bak[sv.path])
       THEN \E r \in {"ok", "fail_open", "fail_write"} :
              /\ bak' = [bak EXCEPT ![sv.path] =
                            IF r = "ok" THEN fs[sv.path]
                            ELSE IF r = "fail_write" THEN Truncated ELSE @]
              /\ IF r = "ok"
                 THEN UNCHANGED <<events, uiVars, bakFailed>>
                 ELSE /\ Emit(<<LogEv("backup_failed", idx, sv.path)>>)
                      /\ bakFailed' = bakFailed \cup {sv.path}
       ELSE UNCHANGED <<bak, events, uiVars, bakFailed>>
    /\ UNCHANGED <<fs, orig, cfg, hasPsd, via, runLimit, last, run, files, idx, cnt, sv,
                   opens, saves, changedBy, alive>>

\* out_path with the force_png flag ignored: every save goes to base + ".png"
out_path_IgnoresFlag(path, force_png) == [path EXCEPT !.ext = "png"]

\* lines 241-244: where _save_image writes
out_path(path, force_png) == IF force_png THEN [path EXCEPT !.ext = "png"] ELSE path

\* lines 240-261 of _save_image and, when it returns, lines 144-145 / 160-161 /
\* 201-202, 204 and 210 of run()
SaveWrite ==
    /\ pc = "write"
    /\ LET target == out_path(sv.path, sv.force_png)
       IN  \E r \in {"ok", "fail_before", "fail_partial"} :
             IF r = "ok"
             THEN /\ fs' = [fs EXCEPT ![target] = [w |-> sv.out[1], h |-> sv.out[2],
                                                   src |-> sv.path, gen |-> saves + 1]]
                  /\ saves' = saves + 1
                  /\ changedBy' = [changedBy EXCEPT ![sv.path] = @ \cup {run}]
                  /\ cnt' = [cnt EXCEPT !.changed = @ + 1, !.processed = @ + 1]
                  /\ Emit(<<LogEv("changed", idx, sv.path), ProgressEv(idx, Len(files))>>)
                  /\ idx' = idx + 1
                  /\ pc' = "loop"
             ELSE /\ fs' = IF r = "fail_partial" THEN [fs EXCEPT ![target] = Truncated]
                           ELSE fs
                  /\ HandleError(sv.path)
                  /\ UNCHANGED <<saves, changedBy>>
    /\ sv' = NoSave
    /\ UNCHANGED <<bak, orig, cfg, hasPsd, via, runLimit, last, run, files, opens,
                   bakFailed, alive>>

\* lines 212-213
Finish ==
    /\ pc = "loop"
    /\ idx > Len(files)
    /\ Emit(<<LogEv("done", 0, NoPath), DoneEv(cnt)>>)
    /\ pc' = "finished"
    /\ alive' = alive - 1
    /\ UNCHANGED <<fs, bak, orig, cfg, hasPsd, via, runLimit, last, run, files, idx, cnt,
                   sv, opens, saves, changedBy, bakFailed>>

----------------------------------------------------------------------------
(* App: the Tk caller.  Its handlers and its after-callbacks run on the    *)
(* thread of the Tk loop ("ui").                                           *)

Touch(ws, thread) == uiWrites \cup {<<w, thread>> : w \in ws}

\* lines 478-490: the settings on_start refuses (an invalid custom Google Play size)
ConfigError(c) == c.mode = "gp" /\ (c.gp_w <= 0 \/ c.gp_h <= 0)

\* lines 470-505: the JobConfig on_start builds from the settings
on_start_config(c) ==
    IF c.mode = "mult4" THEN [c EXCEPT !.enforce_mult4 = TRUE, !.allow_upscale = FALSE]
    ELSE c

\* lines 465-490 when they end in messagebox.showerror and return
OnStartRejected ==
    /\ via = "app"
    /\ ui.btn_start = "normal"
    /\ ConfigError(cfg)
    /\ UNCHANGED vars

\* on_start without line 507: the Start button stays enabled
on_start_StartStaysEnabled ==
    /\ via = "app"
    /\ ui.btn_start = "normal"
    /\ run < runLimit
    /\ ~ConfigError(cfg)
    /\ cfg' = on_start_config(cfg)
    /\ ui' = [AppLog([ui EXCEPT !.txt = 0], 2) EXCEPT
                 !.btn_cancel = "normal",
                 !.prog = <<0, 1>>, !.lbl_prog = Label("preparing", 0, 0, ZeroCounters)]
    /\ uiWrites' = Touch(Widgets, "ui")
    /\ StartWorker
    /\ UNCHANGED <<fs, bak, orig, hasPsd, via, runLimit, saves, changedBy, bakFailed,
                   uiQueue>>

\* lines 464-533.  A disabled ttk button does not invoke its command.
on_start ==
    /\ via = "app"
    /\ ui.btn_start = "normal"
    /\ run < runLimit
    /\ ~ConfigError(cfg)
    /\ cfg' = on_start_config(cfg)
    /\ ui' = [AppLog([ui EXCEPT !.txt = 0], 2) EXCEPT
                 !.btn_start = "disabled", !.btn_cancel = "normal",
                 !.prog = <<0, 1>>, !.lbl_prog = Label("preparing", 0, 0, ZeroCounters)]
    /\ uiWrites' = Touch(Widgets, "ui")
    /\ StartWorker
    /\ UNCHANGED <<fs, bak, orig, hasPsd, via, runLimit, saves, changedBy, bakFailed,
                   uiQueue>>

\* lines 535-537
on_cancel ==
    /\ via = "app"
    /\ ui.btn_cancel = "normal"
    /\ ui' = [ui EXCEPT !.btn_cancel = "disabled"]
    /\ uiWrites' = Touch({"btn_cancel"}, "ui")
    /\ UNCHANGED <<fs, bak, orig, cfg, hasPsd, via, runLimit, last, run, pc, files, idx, cnt,
                   events, sv, opens, saves, changedBy, bakFailed, uiQueue, alive>>

\* lines 539-541, run by the Tk loop for a call progress_fn scheduled
_update_progress(done, total) ==
    /\ ui' = [ui EXCEPT !.prog = <<done, total>>,
                        !.lbl_prog = Label("progress", done, total, ZeroCounters)]
    /\ uiWrites' = Touch({"prog", "lbl_prog"}, "ui")

\* lines 526-529, run by the Tk loop for the call done_fn scheduled
_finish(c) ==
    /\ ui' = [ui EXCEPT !.btn_start = "normal", !.btn_cancel = "disabled",
                        !.lbl_prog = Label("result", 0, 0, c)]
    /\ uiWrites' = Touch({"btn_start", "btn_cancel", "lbl_prog"}, "ui")

\* the Tk loop runs the oldest scheduled callback
UiDispatch ==
    /\ uiQueue # <<>>
    /\ uiQueue' = Tail(uiQueue)
    /\ LET e == Head(uiQueue)
       IN  IF IsProgress(e) THEN _update_progress(e.i, e.t) ELSE _finish(e.c)
    /\ UNCHANGED <<fs, bak, orig, cfg, hasPsd, via, runLimit, last, run, pc, files, idx, cnt,
                   events, sv, opens, saves, changedBy, bakFailed, alive>>

----------------------------------------------------------------------------
(* Initial states and specifications *)

\* the folder trees with at most n files, each of a size in sizes
Folders(paths, sizes, n) ==
    UNION {{[p \in Paths |-> IF p \in S THEN Original(p, sz[p]) ELSE NoFile] :
               sz \in [S -> sizes]} :
           S \in {T \in SUBSET paths : Cardinality(T) <= n}}

InitWith(folders, cfgs, limit, caller) ==
    /\ fs \in folders
    /\ orig = fs
    /\ bak = [p \in Paths |-> NoFile]
    /\ cfg \in cfgs
    /\ hasPsd \in BOOLEAN
    /\ via = caller
    /\ runLimit = limit
    /\ run = 0
    /\ last = [ended |-> "idle", errors |-> 0]
    /\ pc = "idle"
    /\ files = <<>>
    /\ idx = 0
    /\ cnt = ZeroCounters
    /\ events = <<>>
    /\ sv = NoSave
    /\ opens = 0
    /\ saves = 0
    /\ changedBy = [p \in Paths |-> {}]
    /\ bakFailed = {}
    /\ ui = [btn_start |-> "normal", btn_cancel |-> "disabled", txt |-> 0,
             prog |-> <<0, 100>>, lbl_prog |-> Label("idle", 0, 0, ZeroCounters)]
    /\ uiQueue = <<>>
    /\ uiWrites = {}
    /\ alive = 0

\* source sizes of the runner specifications: (4,4) is left alone by every mode of
\* JobConfigs but a resize to width 2, (3,5) is changed by every mode
SrcSizes == {<<4, 4>>, <<3, 5>>}

\* the jobs of the runner specifications; the geometry specification has every
\* method and target
JobConfigs ==
    Mult4Configs \cup ResizeConfigs({2})
      \cup {c \in GpConfigs({<<0, 0>>, <<4, 4>>}) : c.gp_method # "crop"}

\* one run of any job over any folder, the worker constructed with plain sinks
Init == InitWith(Folders(Paths, SrcSizes, MaxFiles), JobConfigs, 1, "direct")

Next ==
    \/ StartDirect
    \/ Enumerate
    \/ ProcessFile
    \/ SaveBackup
    \/ SaveWrite
    \/ Finish

Spec == Init /\ [][Next]_vars

\* source sizes of the re-run specification: a resize to width 2 with multiples of 4
\* enforced changes (4,16) to (4,8) and, run again, (4,8) to (4,4)
RerunSizes == {<<4, 4>>, <<3, 5>>, <<4, 16>>}

RerunPaths == {p \in Paths : p.dir = "" /\ p.ext \in SUPPORTED_EXTS}

\* up to MaxRuns runs of one job with backups enabled over the same flat folder, which
\* holds one file before the first run (a forced-PNG save adds its sibling)
InitRerun ==
    InitWith(Folders(RerunPaths, RerunSizes, 1),
             {c \in JobConfigs : c.backup /\ ~c.recursive}, MaxRuns, "direct")

SpecRerun == InitRerun /\ [][Next]_vars

\* one run over one top-level file of any size up to MaxDim, for every target
GeomPaths == {p \in Paths : p.dir = "" /\ p.ext = "png"}

GeomSizes == (1..MaxDim) \X (1..MaxDim)

GeomConfigs ==
    {c \in Mult4Configs \cup ResizeConfigs(0..MaxTarget)
             \cup GpConfigs((1..MaxTarget) \X (1..MaxTarget)) :
        ~c.recursive /\ ~c.backup}

InitGeom == InitWith(Folders(GeomPaths, GeomSizes, 1), GeomConfigs, 1, "direct")

SpecGeom == InitGeom /\ [][Next]_vars

\* the App: up to MaxRuns clicks on Start that get through, over a flat folder
AppPaths == {p \in Paths : p.dir = "" /\ p.ext \in {"png", "psd"}}

AppConfigs ==
    {c \in JobConfigs : /\ c.mode \in {"mult4", "gp"}
                        /\ ~c.recursive
                        /\ c.gp_method = "pad"
                        /\ ~c.gp_force_png}

InitApp == InitWith(Folders(AppPaths, SrcSizes, MaxFiles), AppConfigs, MaxRuns, "app")

NextApp ==
    \/ on_start
    \/ OnStartRejected
    \/ on_cancel
    \/ UiDispatch
    \/ Enumerate
    \/ ProcessFile
    \/ SaveBackup
    \/ SaveWrite
    \/ Finish

SpecApp == InitApp /\ [][NextApp]_vars

\* up to MaxRuns runs of one job, of any mode with positive targets, over a flat folder
\* that holds one file of any size up to MaxDim before the first run (a forced-PNG
\* save adds its sibling); backups and recursion decide nothing about sizes
TwicePaths == {p \in Paths : p.dir = "" /\ p.ext \in {"png", "psd"}}

TwiceConfigs ==
    {c \in Mult4Configs \cup ResizeConfigs(1..MaxTarget)
             \cup GpConfigs({<<4, 4>>, <<MaxTarget, 3>>}) :
        ~c.recursive /\ ~c.backup}

InitTwice ==
    InitWith(Folders(TwicePaths, GeomSizes, 1), TwiceConfigs, MaxRuns, "direct")

SpecTwice == InitTwice /\ [][Next]_vars

----------------------------------------------------------------------------
(* Claims about the run's callbacks *)

Total == Len(files)

Progress == SelectSeq(events, IsProgress)

\* the number of progress events before position q of events
ProgressBefore(q) == Cardinality({j \in 1..(q - 1) : IsProgress(events[j])})

Started == pc \in {"loop", "backup", "write", "finished"} /\ Total > 0

Outcomes == {"skip_psd", "skip", "changed", "error"}

LogsOf(i, kinds) == {q \in 1..Len(events) : /\ IsLog(events[q])
                                             /\ events[q].i = i
                                             /\ events[q].m \in kinds}

\* C1: in a run over a non-empty file list the progress events are exactly
\* (1,total), (2,total), ... in this order, one for every file handled so far whatever
\* its outcome (so one per file, total of them, when the run has finished), and every
\* log line about file i comes after the progress event of file i-1 and before the
\* progress event of file i.
C1_ProgressPerFile ==
    Started =>
      /\ Len(Progress) = idx - 1
      /\ \A j \in 1..Len(Progress) : Progress[j].i = j /\ Progress[j].t = Total
      /\ pc = "finished" => Len(Progress) = Total
      /\ \A q \in 1..Len(events) :
           (IsLog(events[q]) /\ events[q].i >= 1) => ProgressBefore(q) = events[q].i - 1
      /\ \A i \in 1..(idx - 1) : LogsOf(i, Outcomes) # {}

\* C1 witness: a finished run over two files, one skipped as a PSD without psd-tools
\* and one that raised
C1_Witness ==
    /\ pc = "finished"
    /\ Total = 2
    /\ \E q \in 1..Len(events) : events[q].m = "skip_psd"
    /\ \E q \in 1..Len(events) : events[q].m = "error"
    /\ Len(Progress) = 2

\* C2: every run that has ended called done exactly once, as its last event, after the
\* "Done." line and the last progress event when there were files, with the counters
\* as they stood.
C2_DoneExactlyOnce ==
    pc \in {"finished", "crashed"} =>
      /\ CountKind(events, "done") = 1
      /\ IsDone(events[Len(events)])
      /\ events[Len(events)].c = cnt
      /\ Total > 0 => /\ events[Len(events) - 1] = LogEv("done", 0, NoPath)
                      /\ events[Len(events) - 2] = ProgressEv(Total, Total)

\* C3: a file that raises (on open, on the Google Play target check, in an image
\* operation or on save) adds exactly 1 to errors and one log line that names its
\* path, its progress event is emitted, and the run goes on: it ends only after
\* every file of the list has had its outcome and its progress event.
C3_ErrorIsolated ==
    /\ pc = "crashed" => events = <<>>
    /\ Started =>
         /\ cnt.errors = Cardinality({i \in 1..Total : LogsOf(i, {"error"}) # {}})
         /\ \A i \in 1..Total :
              /\ Cardinality(LogsOf(i, {"error"})) <= 1
              /\ \A q \in LogsOf(i, {"error"}) : events[q].p = files[i]
              /\ LogsOf(i, {"error"}) # {} =>
                   /\ idx > i
                   /\ \E q \in 1..Len(events) : events[q] = ProgressEv(i, Total)
         /\ pc = "finished" =>
              \A i \in 1..Total :
                /\ Cardinality(LogsOf(i, Outcomes)) = 1
                /\ \E q \in 1..Len(events) : events[q] = ProgressEv(i, Total)

\* C3 witness: the first of two files raised and the second was then saved
C3_Witness ==
    /\ pc = "finished"
    /\ Total = 2
    /\ LogsOf(1, {"error"}) # {}
    /\ LogsOf(2, {"changed"}) # {}
    /\ cnt.errors = 1

----------------------------------------------------------------------------
(* Claims about saving and counting *)

\* C5: with backups enabled and no backup failure, at the moment _save_image
\* overwrites a file that exists, the file at <that file's path>.bak is a
\* byte-identical copy of the content about to be overwritten.
C5_BackupAtOverwrite ==
    (pc = "write" /\ cfg.backup /\ bakFailed = {}
       /\ Exists(fs[out_path(sv.path, sv.force_png)])) =>
      bak[out_path(sv.path, sv.force_png)] = fs[out_path(sv.path, sv.force_png)]

\* C6: the counters handed to done satisfy processed == total and
\* changed + skipped + errors == processed.
C6_ConsistentCounters ==
    \A q \in 1..Len(events) :
      IsDone(events[q]) =>
        /\ events[q].c.processed = Total
        /\ events[q].c.changed + events[q].c.skipped + events[q].c.errors
             = events[q].c.processed

\* C7: a run whose enumeration yields no eligible file emits the no-files line and
\* nothing else before done(0,0,0,0), which it calls once, and has opened no image,
\* written no file and made no backup.
C7_NoFiles ==
    (pc = "finished" /\ Total = 0) =>
      /\ events = <<LogEv("nofiles", 0, NoPath), DoneEv(ZeroCounters)>>
      /\ opens = 0
      /\ saves = 0
      /\ fs = orig
      /\ \A p \in Paths : ~Exists(bak[p])

\* C7 witness: the run found nothing eligible in a folder that holds a .gif
C7_Witness ==
    /\ pc = "finished"
    /\ Total = 0
    /\ \E p \in Paths : Exists(fs[p]) /\ p.ext = "gif"
    /\ CountKind(events, "done") = 1

----------------------------------------------------------------------------
(* Claims about backups across runs (SpecRerun) *)

----------------------------------------------------------------------------
(* Claims about the geometry (SpecGeom) *)

GpValid == cfg.mode = "gp" /\ cfg.gp_w > 0 /\ cfg.gp_h > 0

GpTarget == <<cfg.gp_w, cfg.gp_h>>

\* the events of kind m about a file
EventsOf(m) == {q \in 1..Len(events) : IsLog(events[q]) /\ events[q].m = m}

\* C8: in Google Play mode with a positive target, whatever the method and the source
\* size (sources within 1 pixel of the target included), the image handed to
\* _save_image and the image written have exactly the target size; a file is counted
\* as skipped only when its source size is the target size, and a file whose source
\* size is the target size is never saved.
C8_GpExactSize ==
    GpValid =>
      /\ \A p \in Paths :
           Exists(orig[p]) =>
             gp_out_size(orig[p].w, orig[p].h, cfg.gp_w, cfg.gp_h, cfg.gp_method) = GpTarget
      /\ pc \in {"backup", "write"} => (sv.out = GpTarget /\ sv.src # GpTarget)
      /\ \A q \in EventsOf("skip") :
           Size(orig[events[q].p]) = GpTarget /\ cnt.skipped = 1 /\ cnt.changed = 0
      /\ \A q \in EventsOf("changed") :
           /\ Size(orig[events[q].p]) # GpTarget
           /\ Size(fs[out_path(events[q].p, cfg.gp_force_png)]) = GpTarget
           /\ cnt.changed = 1
           /\ cnt.skipped = 0
      /\ (pc = "finished" /\ Total = 1 /\ cnt.errors = 0) =>
           /\ cnt.skipped = 1 <=> Size(orig[files[1]]) = GpTarget
           /\ cnt.changed = 1 <=> Size(orig[files[1]]) # GpTarget

\* C8 witness: a source within 1 pixel of the target in both dimensions, not equal to
\* it, was cropped without scaling and saved
C8_Witness ==
    /\ GpValid
    /\ cfg.gp_method = "crop"
    /\ \E q \in EventsOf("changed") :
         /\ within_one(orig[events[q].p].w, orig[events[q].p].h, cfg.gp_w, cfg.gp_h)
         /\ orig[events[q].p].w < cfg.gp_w
         /\ Size(fs[out_path(events[q].p, cfg.gp_force_png)]) = GpTarget

Mult4Props(n) ==
    /\ next_multiple_of_4(n) % 4 = 0
    /\ next_multiple_of_4(n) - n \in 0..3
    /\ next_multiple_of_4(next_multiple_of_4(n)) = next_multiple_of_4(n)

\* C9: next_multiple_of_4(n) is divisible by 4, exceeds n by 0..3 and is idempotent,
\* for every n from 0 up to the largest dimension of the run; in Mult4 mode a file
\* is counted as skipped only when both its dimensions are divisible by 4, and is
\* otherwise saved with both dimensions rounded up to the next multiple of 4, neither
\* smaller than before, and counted as changed.
C9_Mult4 ==
    /\ \A n \in 0..MaxDim : Mult4Props(n)
    /\ \A p \in Paths : Exists(fs[p]) => Mult4Props(fs[p].w) /\ Mult4Props(fs[p].h)
    /\ cfg.mode = "mult4" =>
         /\ pc \in {"backup", "write"} =>
              /\ sv.src[1] % 4 # 0 \/ sv.src[2] % 4 # 0
              /\ sv.out = <<next_multiple_of_4(sv.src[1]), next_multiple_of_4(sv.src[2])>>
         /\ \A q \in EventsOf("skip") :
              /\ orig[events[q].p].w % 4 = 0
              /\ orig[events[q].p].h % 4 = 0
              /\ cnt.skipped = 1
              /\ cnt.changed = 0
         /\ \A q \in EventsOf("changed") :
              LET o == orig[events[q].p]
                  n == fs[events[q].p]
              IN  /\ o.w % 4 # 0 \/ o.h % 4 # 0
                  /\ n.w % 4 = 0 /\ n.h % 4 = 0
                  /\ n.w - o.w \in 0..3 /\ n.h - o.h \in 0..3
                  /\ cnt.changed = 1
                  /\ cnt.skipped = 0
         /\ (pc = "finished" /\ Total = 1 /\ cnt.errors = 0) =>
              /\ cnt.skipped = 1 <=> (orig[files[1]].w % 4 = 0 /\ orig[files[1]].h % 4 = 0)
              /\ cnt.changed = 1 <=> (orig[files[1]].w % 4 # 0 \/ orig[files[1]].h % 4 # 0)

\* C9 witness: a file with one dimension divisible by 4 and one not was aligned
C9_Witness ==
    /\ cfg.mode = "mult4"
    /\ \E q \in EventsOf("changed") :
         /\ orig[events[q].p].w % 4 = 0
         /\ orig[events[q].p].h % 4 # 0
         /\ fs[events[q].p].w = orig[events[q].p].w
         /\ fs[events[q].p].h > orig[events[q].p].h

----------------------------------------------------------------------------
(* Claims about the App (SpecApp) *)

\* C10: no widget of the App is ever mutated by code that runs on the ResizerWorker
\* thread: every effect of the log, progress and done callbacks on the widgets
\* happens on the thread of the Tk loop.
C10_WidgetsOnlyOnUiThread == \A x \in uiWrites : x[2] = "ui"

----------------------------------------------------------------------------
(* Claims about the counters during a run *)

CounterNames == {"processed", "changed", "skipped", "errors"}

\* the step from the loop boundary before file idx to the boundary after it, possibly
\* through the backup and write steps of its save
FileHandled == run' = run /\ idx >= 1 /\ idx' = idx + 1

\* C11: with callbacks that return normally, at every loop boundary (idx - 1 files
\* handled) processed = changed + skipped and processed + errors = idx - 1; no step
\* of a run decreases a counter; the step that ends a file's handling adds exactly 1
\* to exactly one of changed, skipped, errors and no other step changes a counter;
\* the counters handed to done after the loop satisfy processed + errors = total, and
\* processed < total when a file errored.
C11_CountersAtBoundaries ==
    /\ []((Started /\ pc \in {"loop", "finished"}) =>
            /\ cnt.processed = cnt.changed + cnt.skipped
            /\ cnt.processed + cnt.errors = idx - 1)
    /\ []((Started /\ pc = "finished") =>
            /\ idx - 1 = Total
            /\ events[Len(events)] = DoneEv(cnt)
            /\ cnt.processed + cnt.errors = Total
            /\ cnt.errors > 0 => cnt.processed < Total)
    /\ [][run' = run => \A n \in CounterNames : cnt'[n] >= cnt[n]]_vars
    /\ [][FileHandled =>
             /\ (cnt'.changed - cnt.changed) + (cnt'.skipped - cnt.skipped)
                  + (cnt'.errors - cnt.errors) = 1
             /\ cnt'.processed - cnt.processed = 1 - (cnt'.errors - cnt.errors)]_vars
    /\ [][(run' = run /\ idx' = idx) => cnt' = cnt]_vars

\* C11 witness: a finished run over two files, one skipped and one that raised, so
\* that done received processed = 1 with total = 2
C11_Witness ==
    /\ pc = "finished"
    /\ Total = 2
    /\ cnt = [processed |-> 1, changed |-> 0, skipped |-> 1, errors |-> 1]
    /\ events[Len(events)] = DoneEv(cnt)
    /\ LogsOf(1, {"skip"}) # {}
    /\ LogsOf(2, {"error"}) # {}

----------------------------------------------------------------------------
(* Claims about Start and Cancel (SpecApp) *)

\* a click on Cancel that gets through: on_cancel runs
CancelClick ==
    /\ ui.btn_cancel = "normal"
    /\ ui' = [ui EXCEPT !.btn_cancel = "disabled"]
    /\ uiQueue' = uiQueue

\* the step of the Tk loop that runs the _finish a done callback scheduled
FinishDispatched ==
    /\ uiQueue # <<>>
    /\ IsDone(Head(uiQueue))
    /\ uiQueue' = Tail(uiQueue)

----------------------------------------------------------------------------
(* Claims about running a job again (SpecTwice) *)

\* a run of the job started right after a run of it that completed with zero errors:
\* the two are the first and the second run of the claim
SecondRunAfterClean == run >= 2 /\ last.ended = "finished" /\ last.errors = 0

\* the second run saves nothing and counts as skipped every file it handles
RunIsNoOp ==
    /\ pc \notin {"backup", "write"}
    /\ cnt.changed = 0
    /\ cnt.processed = cnt.skipped
    /\ (pc = "finished" /\ cnt.errors = 0) => cnt.skipped = Total

\* every eligible file of the folder tree has the extension .png
OnlyPngFiles == \A p \in Paths : (Exists(fs[p]) /\ p.ext \in SUPPORTED_EXTS) => p.ext = "png"

\* the jobs whose result is a fixed point of the job
StableJob ==
    \/ cfg.mode = "mult4"
    \/ /\ cfg.mode = "resize"
       /\ cfg.target_width > 0
       /\ ~cfg.enforce_mult4 \/ cfg.target_width % 4 = 0
    \/ /\ GpValid
       /\ ~cfg.gp_force_png \/ OnlyPngFiles

\* C13 as stated: when the first run of a job has completed with zero errors, the
\* second run of the same job over the resulting folder saves and writes no file and
\* counts every file as skipped, in Mult4 mode, in Resize mode with any positive
\* target width and in Google Play mode with or without forced PNG output.
C13_RerunIsNoOp ==
    (SecondRunAfterClean /\ (cfg.mode = "resize" => cfg.target_width > 0)) => RunIsNoOp

\* C13 amended: the same for Mult4; for Resize with a positive target width when
\* multiples of 4 are not enforced or the target width is itself a multiple of 4; and
\* for Google Play with a positive target without forced PNG output, or with it when
\* every eligible file already has the extension .png.  No step of such a second run
\* changes a file or a backup.
C13_RerunIsNoOpForStableJobs ==
    /\ []((SecondRunAfterClean /\ StableJob) => RunIsNoOp)
    /\ [][(SecondRunAfterClean /\ StableJob /\ run' = run) =>
             (fs' = fs /\ bak' = bak /\ saves' = saves)]_vars

\* C13 witness: a resize to width 4 with multiples of 4 enforced changed the one file
\* of the folder in the first run, and the second run has skipped it
C13_Witness ==
    /\ SecondRunAfterClean
    /\ run = 2
    /\ cfg.mode = "resize"
    /\ cfg.enforce_mult4
    /\ cfg.target_width = 4
    /\ pc = "finished"
    /\ Total = 1
    /\ 1 \in changedBy[files[1]]
    /\ Size(fs[files[1]]) # Size(orig[files[1]])
    /\ cnt = [processed |-> 1, changed |-> 0, skipped |-> 1, errors |-> 0]

====
